---- MODULE Spec2Model ----
(***************************************************************************)
(* Household decision engine of the S-period overlapping-generations model *)
(* (src/Code/Chap5/households.py) and the in-class steady-state driver     *)
(* (src/Code/Chap4/Ch4SS_inclass.py).                                      *)
(*                                                                         *)
(* Numbers.  A number is a triple <<m, d, e>> standing for (m/d) * 10^e,   *)
(* kept in a unique normal form (d > 0, m and d coprime and neither a      *)
(* multiple of 5).  Arithmetic on them is exact.  d = 0 marks the IEEE     *)
(* non-finite values numpy produces: <<1,0,0>> is +inf, <<-1,0,0>> is -inf *)
(* and <<0,0,0>> is nan.                                                   *)
(***************************************************************************)
EXTENDS Integers, Sequences, FiniteSets, TLC

----------------------------------------------------------------------------
(* Exact decimal-rational arithmetic *)

Abs(x) == IF x < 0 THEN -x ELSE x

Min(a, b) == IF a <= b THEN a ELSE b

RECURSIVE GCD(_, _)
GCD(a, b) == IF b = 0 THEN a ELSE GCD(b, a % b)

RECURSIVE Pow10(_)
Pow10(k) == IF k = 0 THEN 1 ELSE 10 * Pow10(k - 1)

\* every factor 5 of m and of d goes to the decimal exponent
RECURSIVE NormDec(_, _, _)
NormDec(m, d, e) ==
  IF d % 10 = 0 THEN NormDec(m, d \div 10, e - 1)
  ELSE IF d % 5 = 0 THEN NormDec(2 * m, d \div 5, e - 1)
  ELSE IF m % 10 = 0 THEN NormDec(m \div 10, d, e + 1)
  ELSE IF m % 5 = 0 THEN NormDec(m \div 5, 2 * d, e + 1)
  ELSE <<m, d, e>>

\* the number (m/d) * 10^e, d # 0, in normal form
Reduce(m, d, e, g) == NormDec(m \div g, d \div g, e)

R(m, d, e) ==
  IF m = 0 THEN <<0, 1, 0>>
  ELSE IF d < 0 THEN Reduce(-m, -d, e, GCD(Abs(m), -d))
  ELSE Reduce(m, d, e, GCD(Abs(m), d))

Zero == <<0, 1, 0>>
One == <<1, 1, 0>>
Two == <<2, 1, 0>>
PosInf == <<1, 0, 0>>
NegInf == <<-1, 0, 0>>
NaN == <<0, 0, 0>>

Num(k) == R(k, 1, 0)

IsFinite(a) == a[2] # 0
IsNaN(a) == a[2] = 0 /\ a[1] = 0
Sgn(a) == IF a[1] > 0 THEN 1 ELSE IF a[1] < 0 THEN -1 ELSE 0

Neg(a) == <<-a[1], a[2], a[3]>>

\* the sum of two finite numbers over the common exponent e, g = gcd of the
\* denominators
AddAligned(a, b, e, g) ==
  R(a[1] * Pow10(a[3] - e) * (b[2] \div g)
      + b[1] * Pow10(b[3] - e) * (a[2] \div g),
    (a[2] \div g) * b[2], e)

Add(a, b) ==
  IF IsNaN(a) \/ IsNaN(b) THEN NaN
  ELSE IF ~IsFinite(a) THEN (IF ~IsFinite(b) /\ b # a THEN NaN ELSE a)
  ELSE IF ~IsFinite(b) THEN b
  ELSE IF a[1] = 0 THEN b
  ELSE IF b[1] = 0 THEN a
  ELSE AddAligned(a, b, Min(a[3], b[3]), GCD(a[2], b[2]))

Sub(a, b) == Add(a, Neg(b))

Mul(a, b) ==
  IF IsNaN(a) \/ IsNaN(b) THEN NaN
  ELSE IF ~IsFinite(a) \/ ~IsFinite(b)
       THEN (IF Sgn(a) * Sgn(b) = 0 THEN NaN
             ELSE <<Sgn(a) * Sgn(b), 0, 0>>)
  ELSE R(a[1] * b[1], a[2] * b[2], a[3] + b[3])

\* numpy division: x/0 is +-inf (nan for 0/0), never an exception
Div(a, b) ==
  IF IsNaN(a) \/ IsNaN(b) THEN NaN
  ELSE IF ~IsFinite(b) THEN (IF IsFinite(a) THEN Zero ELSE NaN)
  ELSE IF ~IsFinite(a) THEN (IF b[1] < 0 THEN Neg(a) ELSE a)
  ELSE IF b[1] = 0 THEN <<Sgn(a), 0, 0>>
  ELSE R(a[1] * b[2], a[2] * b[1], a[3] - b[3])

\* a < b and a <= b on finite numbers (IEEE: any comparison with nan is false)
Lt(a, b) ==
  IF IsNaN(a) \/ IsNaN(b) THEN FALSE
  ELSE IF ~IsFinite(a) THEN a = NegInf /\ b # NegInf
  ELSE IF ~IsFinite(b) THEN b = PosInf
  ELSE Sgn(Sub(a, b)) < 0

Le(a, b) == IF a = b THEN ~IsNaN(a) ELSE Lt(a, b)
Gt(a, b) == Lt(b, a)
Ge(a, b) == Le(b, a)

\* a ** k for an integer k (float power with an integral exponent)
RECURSIVE PowInt(_, _)
PowInt(a, k) ==
  IF k = 0 THEN One
  ELSE IF k < 0 THEN Div(One, PowInt(a, -k))
  ELSE Mul(a, PowInt(a, k - 1))

----------------------------------------------------------------------------
(* Python values.  A scalar is [ndim |-> 0, x |-> number]; a one-dimensional *)
(* numpy array is [ndim |-> 1, x |-> sequence of numbers].                   *)

Scalar(v) == [ndim |-> 0, x |-> v]
Vector(s) == [ndim |-> 1, x |-> s]

\* a[lo:hi] on a sequence, 0-based and half-open as in Python (0 <= lo, hi)
Slice(s, lo, hi) ==
  LET h == Min(hi, Len(s))
  IN IF lo >= h THEN <<>> ELSE SubSeq(s, lo + 1, h)

----------------------------------------------------------------------------
(* numpy broadcasting of scalars and (p,) vectors *)

\* the common shape of the operands vs: 0 when all are scalars, the length
\* when the vectors agree (a length-1 vector stretches), -1 when they do not
Lens(vs) == {Len(vs[k].x) : k \in {j \in 1..Len(vs) : vs[j].ndim = 1}}

ShapeOf(lens) ==
  IF lens = {} THEN 0
  ELSE IF Cardinality(lens \ {1}) > 1 THEN -1
  ELSE CHOOSE n \in lens : \A m \in lens : m <= n

BShape(vs) == ShapeOf(Lens(vs))

At(v, i) ==
  IF v.ndim = 0 THEN v.x ELSE IF Len(v.x) = 1 THEN v.x[1] ELSE v.x[i]

Ok(v) == [exc |-> "none", val |-> v]
Raise(name) == [exc |-> name, val |-> Scalar(NaN)]

\* np.append(a, x) and np.append(x, a) for a sequence a and one number x
AppendR(a, x) == a \o <<x>>
AppendL(x, a) == <<x>> \o a

----------------------------------------------------------------------------
(* get_cons: the within-period budget constraint *)

\* a sign slip on the savings term
cons_plus(r, w, b, b_sp1, n, e) ==
  Add(Add(Mul(Add(One, r), b), Mul(Mul(w, n), e)), b_sp1)

cons(r, w, b, b_sp1, n, e) ==
  Sub(Add(Mul(Add(One, r), b), Mul(Mul(w, n), e)), b_sp1)

\* an elementwise result f over the broadcast shape sh
Broadcast(sh, f(_)) ==
  IF sh = -1 THEN Raise("ValueError")
  ELSE IF sh = 0 THEN Ok(Scalar(f(1)))
  ELSE Ok(Vector([i \in 1..sh |-> f(i)]))

get_cons(r, w, b, b_sp1, n, e) ==
  LET f(i) == cons(At(r, i), At(w, i), At(b, i), At(b_sp1, i), At(n, i),
                   At(e, i))
  IN Broadcast(BShape(<<r, w, b, b_sp1, n, e>>), f)

----------------------------------------------------------------------------
(* MU_c_stitch: CRRA marginal utility with a linear continuation below      *)
(* epsilon.  sigma is an integer >= 1 here, so c ** (-sigma) is exact.      *)

epsilon == R(1, 1, -4)

c_s_cnstr(c_s) == Lt(c_s, epsilon)

MU_b2(sigma) == Div(Mul(Num(-sigma), PowInt(epsilon, -sigma - 1)), Two)

\* a sign slip in the intercept
MU_b1_plus(sigma) ==
  Add(PowInt(epsilon, -sigma), Mul(Mul(Two, MU_b2(sigma)), epsilon))

MU_b1(sigma) ==
  Sub(PowInt(epsilon, -sigma), Mul(Mul(Two, MU_b2(sigma)), epsilon))

\* 2 * b2 * c + b1
MU_linear(c, sigma) == Add(Mul(Mul(Two, MU_b2(sigma)), c), MU_b1(sigma))

\* the branch for np.ndim(cvec) == 0
MU_c_stitch_scalar(c_s, sigma) ==
  IF c_s_cnstr(c_s) THEN MU_linear(c_s, sigma) ELSE PowInt(c_s, -sigma)

\* the branch for np.ndim(cvec) == 1: MU_c = zeros(p), then the two masked
\* assignments, the unconstrained entries first
cvec_cnstr(cvec) == [i \in 1..Len(cvec) |-> Lt(cvec[i], epsilon)]

\* MU_c[mask] = f(cvec[mask]) for a boolean mask
Masked(MU, mask, f(_)) ==
  [i \in 1..Len(MU) |-> IF mask[i] THEN f(i) ELSE MU[i]]

NotMask(mask) == [i \in 1..Len(mask) |-> ~mask[i]]

MU_c_assign(cvec, sigma, cnstr) ==
  LET crra(i) == PowInt(cvec[i], -sigma)
      lin(i) == MU_linear(cvec[i], sigma)
  IN Masked(Masked([i \in 1..Len(cvec) |-> Zero], NotMask(cnstr), crra),
            cnstr, lin)

MU_c_stitch_vector(cvec, sigma) ==
  MU_c_assign(cvec, sigma, cvec_cnstr(cvec))

\* MU_c_stitch on a Python value; with neither branch taken MU_c is unbound
\* at the return statement
MU_c_stitch(cvec, sigma) ==
  IF cvec.ndim = 0
  THEN Ok(Scalar(MU_c_stitch_scalar(cvec.x, sigma)))
  ELSE IF cvec.ndim = 1
  THEN Ok(Vector(MU_c_stitch_vector(cvec.x, sigma)))
  ELSE Raise("UnboundLocalError")

----------------------------------------------------------------------------
(* MDU_n_stitch: elliptical marginal disutility of labor with linear        *)
(* continuations below eps_low and above eps_high.  upsilon > 1 is not an   *)
(* integer, so the elliptical value is irrational and is kept as a term:    *)
(* [form, at, st] records which formula was applied, at which labor value,  *)
(* and whether its float evaluation is finite.  The float powers involved   *)
(* are x ** (upsilon - 1) and (1 - x ** upsilon) ** ((1 - upsilon)/upsilon) *)
(* with x = n / l_tilde: nan for x < 0 or x > 1, inf at x = 1.              *)

eps_low == R(1, 1, -6)

eps_high(l_tilde) == Sub(l_tilde, R(1, 1, -6))

PowStatus(x) ==
  IF ~IsFinite(x) \/ Lt(x, Zero) THEN "nan"
  ELSE IF Lt(x, One) THEN "finite"
  ELSE IF x = One THEN "inf"
  ELSE "nan"

EllipStatus(n, l_tilde) == PowStatus(Div(n, l_tilde))

\* status of the closed-form coefficients (b2, b1) or (d2, d1) computed at
\* the breakpoint eps: eps ** (upsilon - 2) and (1 - (eps/l) ** upsilon) ** (-1)
CoefStatus(eps, l_tilde) ==
  IF Div(eps, l_tilde) = Zero THEN "inf" ELSE EllipStatus(eps, l_tilde)

MDU(form, n, st) == [form |-> form, at |-> n, st |-> st]

n_s_low(n_s) == Lt(n_s, eps_low)
n_s_high(n_s, l_tilde) == Gt(n_s, eps_high(l_tilde))
\* strict comparison at the upper breakpoint
n_s_uncstr_strict(n_s, l_tilde) ==
  Ge(n_s, eps_low) /\ Lt(n_s, eps_high(l_tilde))

n_s_uncstr(n_s, l_tilde) == Ge(n_s, eps_low) /\ Le(n_s, eps_high(l_tilde))

\* the branch for np.ndim(nvec) == 0: if / elif / elif with no else, so
\* MDU_n stays unbound when no test succeeds
MDU_n_stitch_scalar(n_s, l_tilde) ==
  IF n_s_uncstr(n_s, l_tilde)
  THEN MDU("ellip", n_s, EllipStatus(n_s, l_tilde))
  ELSE IF n_s_low(n_s)
  THEN MDU("g_low", n_s, CoefStatus(eps_low, l_tilde))
  ELSE IF n_s_high(n_s, l_tilde)
  THEN MDU("g_high", n_s, CoefStatus(eps_high(l_tilde), l_tilde))
  ELSE MDU("unbound", n_s, "nan")

nvec_low(nvec) == [i \in 1..Len(nvec) |-> Lt(nvec[i], eps_low)]
\* nvec_high with the upper breakpoint itself counted as above it
nvec_high_closed(nvec, l_tilde) ==
  [i \in 1..Len(nvec) |-> Ge(nvec[i], eps_high(l_tilde))]

nvec_high(nvec, l_tilde) ==
  [i \in 1..Len(nvec) |-> Gt(nvec[i], eps_high(l_tilde))]
nvec_uncstr(low, high) == [i \in 1..Len(low) |-> ~low[i] /\ ~high[i]]

\* the branch for np.ndim(nvec) == 1: zeros(p), then three masked
\* assignments in the order unconstrained, low, high
MDU_n_assign(nvec, l_tilde, low, high) ==
  LET ellip(i) == MDU("ellip", nvec[i], EllipStatus(nvec[i], l_tilde))
      g_low(i) == MDU("g_low", nvec[i], CoefStatus(eps_low, l_tilde))
      g_high(i) == MDU("g_high", nvec[i],
                       CoefStatus(eps_high(l_tilde), l_tilde))
  IN Masked(Masked(Masked([i \in 1..Len(nvec) |->
                             MDU("zeros", nvec[i], "finite")],
                          nvec_uncstr(low, high), ellip),
                   low, g_low),
            high, g_high)

MDU_n_stitch_vector(nvec, l_tilde) ==
  MDU_n_assign(nvec, l_tilde, nvec_low(nvec), nvec_high(nvec, l_tilde))

UnboundCheck(v) ==
  IF v.form = "unbound" THEN Raise("UnboundLocalError") ELSE Ok(Scalar(v))

MDU_n_stitch(nvec, l_tilde) ==
  IF nvec.ndim = 0
  THEN UnboundCheck(MDU_n_stitch_scalar(nvec.x, l_tilde))
  ELSE IF nvec.ndim = 1
  THEN Ok(Vector(MDU_n_stitch_vector(nvec.x, l_tilde)))
  ELSE Raise("UnboundLocalError")

----------------------------------------------------------------------------
(* Euler residuals.  A residual is a record: a plain number x is            *)
(* [form "num", q x]; a labor residual is [form "diff"] for                 *)
(* q - coef * mdu and [form "pct"] for q / (coef * mdu) - 1, with           *)
(* q = w * e * MU_c, coef = chi_n and mdu the marginal-disutility term.     *)

NoMDU == MDU("none", Zero, "finite")

NumRes(x) == [form |-> "num", q |-> x, coef |-> Zero, mdu |-> NoMDU]

LaborRes(diff, q, chi, mdu) ==
  [form |-> IF diff THEN "diff" ELSE "pct", q |-> q, coef |-> chi, mdu |-> mdu]

ResFinite(res) ==
  IsFinite(res.q) /\ IsFinite(res.coef) /\ res.mdu.st = "finite"

Wrap(xs) == [i \in 1..Len(xs) |-> NumRes(xs[i])]

\* the first exception among two results, if any
Exc2(a, b) == IF a.exc # "none" THEN a.exc ELSE b.exc

\* n_errors from the marginal utilities: (wpath * e * mu_c) - chi_n_vec *
\* mdu_n, or the ratio of the two terms minus one
n_errors_from(wpath, e, chi_n_vec, diff, mu_c, mdu_n) ==
  LET err(i) == LaborRes(diff,
                         Mul(Mul(At(wpath, i), At(e, i)), At(mu_c.val, i)),
                         At(chi_n_vec, i), At(mdu_n.val, i))
  IN IF Exc2(mu_c, mdu_n) # "none" THEN Raise(Exc2(mu_c, mdu_n))
     ELSE Broadcast(BShape(<<wpath, e, mu_c.val, chi_n_vec, mdu_n.val>>), err)

\* the last lines of get_n_errors, from consumption on
n_errors_of(nvec, wpath, sigma, e, l_tilde, chi_n_vec, diff, cvec) ==
  IF cvec.exc # "none" THEN Raise(cvec.exc)
  ELSE n_errors_from(wpath, e, chi_n_vec, diff,
                     MU_c_stitch(cvec.val, sigma),
                     MDU_n_stitch(nvec, l_tilde))

\* the consumption get_n_errors works with: the ninth argument when nine
\* are given; otherwise the tuple is unpacked as the eleven arguments that
\* end with rpath, b_s_vec, b_sp1_vec, and consumption comes from get_cons
n_errors_cvec(nvec, args) ==
  IF Len(args) = 9 THEN Ok(args[9])
  ELSE IF Len(args) # 11 THEN Raise("ValueError")
  ELSE get_cons(args[9], args[1], args[10], args[11], nvec, args[3])

\* get_n_errors(nvec, *args)
get_n_errors(nvec, args) ==
  IF Len(args) < 9 THEN Raise("ValueError")
  ELSE n_errors_of(nvec, args[1], args[2], args[3], args[4], args[5],
                   args[8], n_errors_cvec(nvec, args))

\* b_errors from the two marginal-utility vectors
b_errors_from(r, beta, diff, mu_c, mu_cp1) ==
  LET lhs(i) == Mul(Mul(beta, Add(One, At(r, i))), mu_cp1[i])
      err(i) == IF diff THEN Sub(lhs(i), mu_c[i])
                ELSE Sub(Div(lhs(i), mu_c[i]), One)
  IN Broadcast(BShape(<<r, Vector(mu_cp1), Vector(mu_c)>>), err)

\* get_b_errors(cvec, *args) with (r, beta, sigma, diff) = args
get_b_errors(cvec, args) ==
  IF Len(args) # 4 THEN Raise("ValueError")
  ELSE b_errors_from(args[1], args[2], args[4],
                     MU_c_stitch_vector(Slice(cvec, 0, Len(cvec) - 1),
                                        args[3]),
                     MU_c_stitch_vector(Slice(cvec, 1, Len(cvec)), args[3]))

\* b_s_vec = np.append(b_init, b_sp1_vec[:-1])
bn_b_s_vec(b_init, b_sp1_vec) ==
  AppendL(b_init, Slice(b_sp1_vec, 0, Len(b_sp1_vec) - 1))

bn_frame(rpath, wpath, e, b_sp1_vec, n_vec, b_s_vec) ==
  [b_sp1_vec |-> b_sp1_vec, n_vec |-> n_vec, b_s_vec |-> b_s_vec,
   c_vec |-> get_cons(Vector(rpath), Vector(wpath), Vector(b_s_vec),
                      Vector(b_sp1_vec), Vector(n_vec), e)]

\* the guess's next entry taken as savings after the last age
bn_b_sp1_vec_free(bn_vec, p) == Slice(bn_vec, 0, p)

\* b_sp1_vec = np.append(bn_vec[:p - 1], 0.0)
bn_b_sp1_vec(bn_vec, p) == AppendR(Slice(bn_vec, 0, p - 1), Zero)

\* the labor part read from the front of the guess
bn_n_vec_front(bn_vec, p) == Slice(bn_vec, 0, p)

\* n_vec = bn_vec[p - 1:]
bn_n_vec(bn_vec, p) == Slice(bn_vec, p - 1, Len(bn_vec))

\* the local vectors bn_errors builds from the guess before any residual
\* is evaluated (args as in bn_errors)
bn_locals(bn_vec, args) ==
  bn_frame(args[1], args[2], args[7], bn_b_sp1_vec(bn_vec, args[4]),
           bn_n_vec(bn_vec, args[4]),
           bn_b_s_vec(args[3], bn_b_sp1_vec(bn_vec, args[4])))

\* bn_errors = np.hstack((b_errors, n_errors))
bn_hstack(b_errors, n_errors) ==
  IF Exc2(n_errors, b_errors) # "none" THEN Raise(Exc2(n_errors, b_errors))
  ELSE Ok(Vector(Wrap(b_errors.val.x) \o n_errors.val.x))

bn_errors_of(loc, args) ==
  IF loc.c_vec.exc # "none" THEN Raise(loc.c_vec.exc)
  ELSE bn_hstack(
         get_b_errors(loc.c_vec.val.x,
                      <<Vector(Slice(args[1], 1, args[4])), args[5], args[6],
                        args[12]>>),
         get_n_errors(Vector(loc.n_vec),
                      <<Vector(args[2]), args[6], args[7], args[8], args[9],
                        args[10], args[11], args[12], loc.c_vec.val>>))

\* bn_errors(bn_vec, *args) with the twelve-element args tuple
\* (rpath, wpath, b_init, p, beta, sigma, e, l_tilde, chi_n_vec, b_ellip,
\*  upsilon, diff)
bn_errors(bn_vec, args) ==
  IF Len(args) # 12 THEN Raise("ValueError")
  ELSE bn_errors_of(bn_locals(bn_vec, args), args)

----------------------------------------------------------------------------
(* Ch4SS_inclass.py: the steady-state driver's own household functions.     *)
(* They work on numpy arrays with a scalar r and w; get_n_errors and        *)
(* get_b_errors of that file are Ch4_get_n_errors and Ch4_get_b_errors.     *)

RECURSIVE SumTo(_, _)
SumTo(v, k) == IF k = 0 THEN Zero ELSE Add(SumTo(v, k - 1), v[k])

get_K(bvec) == SumTo(bvec, Len(bvec))

get_L(nvec) == SumTo(nvec, Len(nvec))

\* cvec = (1 + r) * b_s + w * nvec - b_splus1
get_c_of(nvec, b_s, b_splus1, r, w) ==
  LET f(i) == Sub(Add(Mul(Add(One, r), At(b_s, i)), Mul(w, At(nvec, i))),
                  At(b_splus1, i))
  IN Broadcast(BShape(<<b_s, nvec, b_splus1>>), f)

get_c(nvec, bvec, r, w) ==
  get_c_of(Vector(nvec), Vector(AppendL(Zero, bvec)),
           Vector(AppendR(bvec, Zero)), r, w)

\* the elliptical formula applied to every entry, with no stitching
MDU_n(nvec, l_tilde) ==
  [i \in 1..Len(nvec) |-> MDU("ellip", nvec[i], EllipStatus(nvec[i], l_tilde))]

\* cvec ** -sigma on an array: 0 ** -sigma is inf
MU_c(cvec, sigma) == [i \in 1..Len(cvec) |-> PowInt(cvec[i], -sigma)]

\* n_errors = w * MU_cs - chi_n_vec * MDU_ns
Ch4_n_errors_from(w, chi_n_vec, MDU_ns, MU_cs) ==
  LET err(i) == LaborRes(TRUE, Mul(w, MU_cs[i]), At(Vector(chi_n_vec), i),
                         At(Vector(MDU_ns), i))
  IN Broadcast(BShape(<<Vector(MU_cs), Vector(chi_n_vec), Vector(MDU_ns)>>),
               err)

Ch4_n_errors_of(nvec, w, sigma, chi_n_vec, l_tilde, c_s) ==
  IF c_s.exc # "none" THEN Raise(c_s.exc)
  ELSE Ch4_n_errors_from(w, chi_n_vec, MDU_n(nvec, l_tilde),
                         MU_c(c_s.val.x, sigma))

\* get_n_errors(nvec, bvec, r, w, args) with
\* args = (sigma, chi_n_vec, l_tilde, b_ellip, upsilon)
Ch4_get_n_errors(nvec, bvec, r, w, args) ==
  Ch4_n_errors_of(nvec, w, args[1], args[2], args[3], get_c(nvec, bvec, r, w))

\* b_errors = MU_cs - beta * (1 + r) * MU_csp1
Ch4_b_errors_from(r, beta, MU_cs, MU_csp1) ==
  Ok(Vector([i \in 1..Len(MU_cs) |->
        Sub(MU_cs[i], Mul(Mul(beta, Add(One, r)), MU_csp1[i]))]))

Ch4_b_errors_of(r, beta, sigma, cvec) ==
  IF cvec.exc # "none" THEN Raise(cvec.exc)
  ELSE Ch4_b_errors_from(r, beta,
         MU_c(Slice(cvec.val.x, 0, Len(cvec.val.x) - 1), sigma),
         MU_c(Slice(cvec.val.x, 1, Len(cvec.val.x)), sigma))

\* get_b_errors(nvec, bvec, r, w, args) with args = (beta, sigma)
Ch4_get_b_errors(nvec, bvec, r, w, args) ==
  Ch4_b_errors_of(r, args[1], args[2], get_c(nvec, bvec, r, w))

\* nb_errors = np.append(n_errors, b_errors)
nb_append(n_errors, b_errors) ==
  IF Exc2(n_errors, b_errors) # "none" THEN Raise(Exc2(n_errors, b_errors))
  ELSE Ok(Vector(n_errors.val.x \o Wrap(b_errors.val.x)))

euler_system_of(nvec, bvec, args) ==
  nb_append(
    Ch4_get_n_errors(nvec, bvec, args[1], args[2],
                     <<args[4], args[5], args[6], args[7], args[8]>>),
    Ch4_get_b_errors(nvec, bvec, args[1], args[2], <<args[3], args[4]>>))

\* euler_system(nbvec, *args) with
\* args = (r, w, beta, sigma, chi_n_vec, l_tilde, b_ellip, upsilon, S)
euler_system(nbvec, args) ==
  IF Len(args) # 9 THEN Raise("ValueError")
  ELSE euler_system_of(Slice(nbvec, 0, args[9]),
                       Slice(nbvec, args[9], Len(nbvec)), args)

----------------------------------------------------------------------------
(* Bounds and input sets *)

\* longest lifetime explored (the driver runs with S = 50)
S == 3

\* longest vector handed to a utility primitive
MaxLen == 2

RECURSIVE SeqsOfLen(_, _)
SeqsOfLen(V, n) ==
  IF n = 0 THEN {<<>>}
  ELSE {AppendR(s, v) : s \in SeqsOfLen(V, n - 1), v \in V}

SeqsUpTo(V, n) == UNION {SeqsOfLen(V, k) : k \in 1..n}

\* the scalars over V, and the (p,) vectors over V for p up to n
Scalars(V) == {Scalar(v) : v \in V}
Vectors(V, n) == {Vector(q) : q \in SeqsUpTo(V, n)}

SigmaVals == {1, 2}

\* consumption: deeply negative, zero, below / at / above epsilon, ordinary
CVals == {Num(-1), Zero, R(5, 1, -5), epsilon, R(2, 1, -4), One, Num(3)}

LVals == {One, Two}

\* labor: negative, zero, below / at eps_low, interior, at / above eps_high,
\* at and beyond the time endowment
NVals(l_tilde) ==
  {Num(-1), Zero, R(5, 1, -7), eps_low, R(5, 1, -1), eps_high(l_tilde),
   Sub(l_tilde, R(5, 1, -7)), l_tilde, Add(l_tilde, One)}

\* entries of a combined guess: labor below zero, interior and above the
\* time endowment; savings small and large (large savings make consumption
\* negative)
NGuess == {Num(-1), R(5, 1, -1), Two}
BGuess == {R(5, 1, -1), Two}

\* price, productivity and weight paths over p remaining periods, with a
\* different value at every age
RPath(p) == [i \in 1..p |-> Num(i - 1)]
WPath(p) == [i \in 1..p |-> Num(i)]
EPath(p) == [i \in 1..p |-> IF i % 2 = 0 THEN One ELSE R(5, 1, -1)]
ChiPath(p) == [i \in 1..p |-> One]

BetaVal == R(25, 1, -2)

\* the parameters the steady-state driver sets at module level
Ch4_beta == R(96, 1, -2)
Ch4_sigma == 2
Ch4_l_tilde == One
rbar == R(1, 1, -1)

\* get_w_from_r(rbar, A, alpha, delta) is an irrational number computed by
\* the production side; the household functions only need some wage
wbar == One

\* iterates of the steady-state solve: S labor values, then S - 1 savings
Ch4_NGuess == {Num(-1), R(5, 1, -1), Two}
Ch4_BGuess == {Zero, Num(10)}
Ch4_Guesses ==
  {n \o b : n \in SeqsOfLen(Ch4_NGuess, S), b \in SeqsOfLen(Ch4_BGuess, S - 1)}

----------------------------------------------------------------------------
(* State: one call of a household function.  args holds the function name  *)
(* and its inputs, ret what it returned, frame the locals it built.        *)

VARIABLES pc, args, ret, frame

vars == <<pc, args, ret, frame>>

NoRet == Ok(Scalar(Zero))
NoFrame == [b_sp1_vec |-> <<>>, n_vec |-> <<>>, b_s_vec |-> <<>>,
            c_vec |-> NoRet]

In_MU_c_stitch(C) ==
  {[fn |-> "MU_c_stitch", cvec |-> c, sigma |-> sg] :
     c \in C, sg \in SigmaVals}

In_MDU_n_stitch(l, N) ==
  {[fn |-> "MDU_n_stitch", nvec |-> n, l_tilde |-> l] : n \in N}

In_get_cons ==
  {[fn |-> "get_cons", r |-> r, w |-> w, b |-> b, b_sp1 |-> b1, n |-> n,
    e |-> e] :
     r \in {Zero, R(1, 1, -1)}, w \in {One, R(15, 1, -1)},
     b \in {Num(-1), Zero, R(5, 1, -1)}, b1 \in {Zero, R(3, 1, -1), Two},
     n \in {Zero, R(5, 1, -1), One}, e \in {One, R(8, 1, -1)}}

bn_args_of(p, b0, sg, d) ==
  <<RPath(p), WPath(p), b0, p, BetaVal, sg, Vector(EPath(p)), One,
    Vector(ChiPath(p)), "b_ellip", "upsilon", d>>

\* TLC's integers are 32 bits wide: a savings residual that subtracts a
\* CRRA marginal utility from a stitched one (of order epsilon ** -sigma)
\* does not fit, so a guess is explored when its consumption path lies on
\* one side of epsilon
OneSided(cvec) ==
  \/ \A i \in 1..Len(cvec) : Lt(cvec[i], epsilon)
  \/ \A i \in 1..Len(cvec) : ~Lt(cvec[i], epsilon)

In_bn_errors ==
  UNION {{[fn |-> "bn_errors", bn_vec |-> g,
           bn_args |-> bn_args_of(p, b0, sg, d)] :
            g \in {b \o n : b \in SeqsOfLen(BGuess, p - 1),
                            n \in SeqsOfLen(NGuess, p)},
            b0 \in {Zero, R(5, 1, -1)},
            sg \in SigmaVals, d \in BOOLEAN} : p \in 2..S}

\* the argument tuples of get_n_errors: "cvec" ends with the consumption
\* path, "rpath" ends with rpath, b_s_vec, b_sp1_vec (the tuple the else
\* branch unpacks), "docstring" is the second tuple of the docstring,
\* (wpath, sigma, l_tilde, chi_n_vec, b_ellip, upsilon, diff, rpath,
\*  b_s_vec, b_sp1_vec)
n_args_of(context, p, sg, d, cvec, b_s_vec, b_sp1_vec) ==
  IF context = "cvec"
  THEN <<Vector(WPath(p)), sg, Vector(EPath(p)), One, Vector(ChiPath(p)),
         "b_ellip", "upsilon", d, cvec>>
  ELSE IF context = "rpath"
  THEN <<Vector(WPath(p)), sg, Vector(EPath(p)), One, Vector(ChiPath(p)),
         "b_ellip", "upsilon", d, Vector(RPath(p)), Vector(b_s_vec),
         Vector(b_sp1_vec)>>
  ELSE <<Vector(WPath(p)), sg, One, Vector(ChiPath(p)), "b_ellip", "upsilon",
         d, Vector(RPath(p)), Vector(b_s_vec), Vector(b_sp1_vec)>>

n_call(context, p, sg, d, nvec, b_s_vec, b_sp1_vec) ==
  [fn |-> "get_n_errors", context |-> context, nvec |-> Vector(nvec),
   p |-> p, sigma |-> sg, diff |-> d, b_s_vec |-> b_s_vec,
   b_sp1_vec |-> b_sp1_vec,
   n_args |-> n_args_of(context, p, sg, d,
                        get_cons(Vector(RPath(p)), Vector(WPath(p)),
                                 Vector(b_s_vec), Vector(b_sp1_vec),
                                 Vector(nvec), Vector(EPath(p))).val,
                        b_s_vec, b_sp1_vec)]

In_get_n_errors ==
  UNION {{n_call(cx, p, sg, d, n, bn_b_s_vec(Zero, b), b) :
            cx \in {"cvec", "rpath", "docstring"}, sg \in SigmaVals,
            d \in BOOLEAN, n \in SeqsOfLen(NGuess, p),
            b \in {[i \in 1..p |-> v] : v \in BGuess}} : p \in 2..S}

In_euler_system ==
  {[fn |-> "euler_system", nbvec |-> g,
    nb_args |-> <<rbar, wbar, Ch4_beta, Ch4_sigma, ChiPath(S), Ch4_l_tilde,
                  "b_ellip", "upsilon", S>>] : g \in Ch4_Guesses}

In_get_c ==
  {[fn |-> "get_c", nvec |-> n, bvec |-> b, r |-> rbar, w |-> wbar] :
     n \in SeqsOfLen(Ch4_NGuess, S), b \in SeqsOfLen(Ch4_BGuess, S - 1)}

Init ==
  /\ pc = "call"
  /\ \/ args \in In_MU_c_stitch(Scalars(CVals))
     \/ args \in In_MU_c_stitch(Vectors(CVals, MaxLen))
     \/ \E l \in LVals : args \in In_MDU_n_stitch(l, Scalars(NVals(l)))
     \/ \E l \in LVals : args \in In_MDU_n_stitch(l, Vectors(NVals(l), MaxLen))
     \/ args \in In_get_cons
     \/ /\ args \in In_bn_errors
        /\ OneSided(bn_locals(args.bn_vec, args.bn_args).c_vec.val.x)
     \/ args \in In_get_n_errors
     \/ args \in In_euler_system
     \/ args \in In_get_c
  /\ ret = NoRet
  /\ frame = NoFrame

Call_MU_c_stitch ==
  /\ pc = "call" /\ args.fn = "MU_c_stitch"
  /\ ret' = MU_c_stitch(args.cvec, args.sigma)
  /\ pc' = "returned"
  /\ UNCHANGED <<args, frame>>

Call_MDU_n_stitch ==
  /\ pc = "call" /\ args.fn = "MDU_n_stitch"
  /\ ret' = MDU_n_stitch(args.nvec, args.l_tilde)
  /\ pc' = "returned"
  /\ UNCHANGED <<args, frame>>

Call_get_cons ==
  /\ pc = "call" /\ args.fn = "get_cons"
  /\ ret' = get_cons(Scalar(args.r), Scalar(args.w), Scalar(args.b),
                     Scalar(args.b_sp1), Scalar(args.n), Scalar(args.e))
  /\ pc' = "returned"
  /\ UNCHANGED <<args, frame>>

Call_bn_errors ==
  /\ pc = "call" /\ args.fn = "bn_errors"
  /\ ret' = bn_errors(args.bn_vec, args.bn_args)
  /\ frame' = bn_locals(args.bn_vec, args.bn_args)
  /\ pc' = "returned"
  /\ UNCHANGED args

Call_get_n_errors ==
  /\ pc = "call" /\ args.fn = "get_n_errors"
  /\ ret' = get_n_errors(args.nvec, args.n_args)
  /\ pc' = "returned"
  /\ UNCHANGED <<args, frame>>

Call_euler_system ==
  /\ pc = "call" /\ args.fn = "euler_system"
  /\ ret' = euler_system(args.nbvec, args.nb_args)
  /\ pc' = "returned"
  /\ UNCHANGED <<args, frame>>

Call_get_c ==
  /\ pc = "call" /\ args.fn = "get_c"
  /\ ret' = get_c(args.nvec, args.bvec, args.r, args.w)
  /\ pc' = "returned"
  /\ UNCHANGED <<args, frame>>

Next ==
  \/ Call_MU_c_stitch
  \/ Call_MDU_n_stitch
  \/ Call_get_cons
  \/ Call_bn_errors
  \/ Call_get_n_errors
  \/ Call_euler_system
  \/ Call_get_c

Spec == Init /\ [][Next]_vars

----------------------------------------------------------------------------
(* get_cnb_vecs: the forward simulation.  One step per pass of the loop     *)
(* over per; opt.root is the library's Levenberg-Marquardt solver, whose    *)
(* result (x, success) is an input of the step.                             *)

RECURSIVE IPow(_, _)
IPow(x, k) == IF k = 0 THEN 1 ELSE x * IPow(x, k - 1)

IRoot(n, k) == CHOOSE x \in 0..n : IPow(x, k) = n

\* a ** (1 / sigma) for a positive a with an exact sigma-th root
Root(a, sigma) ==
  IF sigma = 1 THEN a
  ELSE R(IRoot(a[1], sigma), IRoot(a[2], sigma), a[3] \div sigma)

\* values opt.root hands back as result_n.x
SolveVals == {R(5, 1, -1), Two}

\* interest rates for which beta * (1 + r) has an exact square root
SimRVals == {Zero, Num(3)}

In_get_cnb_vecs ==
  UNION {{[fn |-> "get_cnb_vecs", c_init |-> c, rpath |-> rp,
           wpath |-> WPath(p),
           cnb_args |-> <<Zero, BetaVal, sg, Vector(EPath(p)), One, "b_ellip",
                          "upsilon", Vector(ChiPath(p)), d>>] :
            c \in {One}, rp \in SeqsOfLen(SimRVals, p),
            sg \in SigmaVals, d \in BOOLEAN} : p \in 2..S}

\* cvec = np.zeros(p), nvec = np.zeros(p), bvec = np.zeros(p); solves keeps
\* result_n.success of every pass, root_call the starting point and the
\* args of the last call of opt.root
sim_frame(p) ==
  [per |-> 0, cvec |-> [i \in 1..p |-> Zero], nvec |-> [i \in 1..p |-> Zero],
   bvec |-> [i \in 1..p |-> Zero],
   root_call |-> [x0 |-> <<>>, fargs |-> <<>>],
   result_n |-> [x |-> Zero, success |-> TRUE], solves |-> <<>>,
   n_errors |-> NoRet, b_errors |-> NoRet]

\* the budget line with consumption added instead of subtracted
sim_budget_plus(f, a, k) ==
  Add(Add(Mul(Add(One, a.rpath[k]), f.bvec[k]),
          Mul(Mul(a.wpath[k], a.cnb_args[4].x[k]), f.nvec[k])),
      f.cvec[k])

\* (1 + rpath[k]) * bvec[k] + wpath[k] * e[k] * nvec[k] - cvec[k], with k
\* counted from 1
sim_budget(f, a, k) ==
  Sub(Add(Mul(Add(One, a.rpath[k]), f.bvec[k]),
          Mul(Mul(a.wpath[k], a.cnb_args[4].x[k]), f.nvec[k])),
      f.cvec[k])

\* bvec[per] for the pass with per = k - 1
sim_bvec(f, a, k) == IF k = 1 THEN a.cnb_args[1] ELSE sim_budget(f, a, k - 1)

\* the consumption line with the interest rate of the age before
sim_cvec_lagged(f, a, k) ==
  IF k = 1 THEN a.c_init
  ELSE Mul(f.cvec[k - 1],
           Root(Mul(a.cnb_args[2], Add(One, a.rpath[k - 1])), a.cnb_args[3]))

\* cvec[per] for the pass with per = k - 1
sim_cvec(f, a, k) ==
  IF k = 1 THEN a.c_init
  ELSE Mul(f.cvec[k - 1],
           Root(Mul(a.cnb_args[2], Add(One, a.rpath[k])), a.cnb_args[3]))

\* n_args taken at the last age of the paths instead of the current one
sim_n_args_last(a, k, c) ==
  <<Scalar(a.wpath[Len(a.wpath)]), a.cnb_args[3],
    Scalar(a.cnb_args[4].x[Len(a.wpath)]), a.cnb_args[5],
    Scalar(a.cnb_args[8].x[Len(a.wpath)]), a.cnb_args[6], a.cnb_args[7],
    a.cnb_args[9], Scalar(c)>>

\* n_args of the pass, given cvec[per]
sim_n_args(a, k, c) ==
  <<Scalar(a.wpath[k]), a.cnb_args[3], Scalar(a.cnb_args[4].x[k]),
    a.cnb_args[5], Scalar(a.cnb_args[8].x[k]), a.cnb_args[6], a.cnb_args[7],
    a.cnb_args[9], Scalar(c)>>

\* a starting point taken from the solve of the age before
sim_x0_warm(f, a) == <<f.result_n.x>>

\* the starting point handed to opt.root, l_tilde / 2: nothing of the
\* locals is read
sim_x0(f, a) == <<Div(a.cnb_args[5], Two)>>

\* the solver's first evaluation, get_n_errors(x0, *n_args) at l_tilde / 2
sim_first_eval(f, a, k) ==
  get_n_errors(Vector(sim_x0(f, a)), sim_n_args(a, k, sim_cvec(f, a, k)))

\* nvec[per] = result_n.x
sim_store(f, a, k, x, ok) ==
  [f EXCEPT !.per = k, !.bvec[k] = sim_bvec(f, a, k),
            !.cvec[k] = sim_cvec(f, a, k), !.nvec[k] = x,
            !.root_call = [x0 |-> sim_x0(f, a),
                           fargs |-> sim_n_args(a, k, sim_cvec(f, a, k))],
            !.result_n = [x |-> x, success |-> ok],
            !.solves = Append(@, ok)]

\* the residuals computed after the loop
sim_n_errors(f, a) ==
  get_n_errors(Vector(f.nvec),
               <<Vector(a.wpath), a.cnb_args[3], a.cnb_args[4], a.cnb_args[5],
                 a.cnb_args[8], a.cnb_args[6], a.cnb_args[7], a.cnb_args[9],
                 Vector(f.cvec)>>)

\* b_args = (beta, sigma, diff); get_b_errors(cvec, rpath[1:], b_args)
sim_b_errors(f, a) ==
  get_b_errors(f.cvec,
               <<Vector(Slice(a.rpath, 1, Len(a.rpath))),
                 <<a.cnb_args[2], a.cnb_args[3], a.cnb_args[9]>>>>)

sim_after(f, a) ==
  [f EXCEPT !.n_errors = sim_n_errors(f, a),
            !.b_errors = IF sim_n_errors(f, a).exc # "none" THEN NoRet
                         ELSE sim_b_errors(f, a)]

\* return cvec, nvec, bvec, b_Sp1, n_errors, b_errors
sim_return(f, a) ==
  IF Exc2(f.n_errors, f.b_errors) # "none"
  THEN Raise(Exc2(f.n_errors, f.b_errors))
  ELSE Ok([cvec |-> f.cvec, nvec |-> f.nvec, bvec |-> f.bvec,
           b_Sp1 |-> sim_budget(f, a, Len(a.rpath)),
           n_errors |-> f.n_errors.val, b_errors |-> f.b_errors.val])

SimInit ==
  /\ pc = "loop"
  /\ args \in In_get_cnb_vecs
  /\ ret = NoRet
  /\ frame = sim_frame(Len(args.rpath))

\* one pass of the loop over per
Sim_Pass ==
  /\ pc = "loop" /\ frame.per < Len(args.rpath)
  /\ IF sim_first_eval(frame, args, frame.per + 1).exc # "none"
     THEN /\ pc' = "returned"
          /\ ret' = Raise(sim_first_eval(frame, args, frame.per + 1).exc)
          /\ UNCHANGED frame
     ELSE /\ \E x \in SolveVals, ok \in BOOLEAN :
               frame' = sim_store(frame, args, frame.per + 1, x, ok)
          /\ UNCHANGED <<pc, ret>>
  /\ UNCHANGED args

\* the lines after the loop, up to the return
Sim_Finish ==
  /\ pc = "loop" /\ frame.per = Len(args.rpath)
  /\ frame' = sim_after(frame, args)
  /\ ret' = sim_return(frame', args)
  /\ pc' = "returned"
  /\ UNCHANGED args

SimNext == Sim_Pass \/ Sim_Finish

SpecSim == SimInit /\ [][SimNext]_vars

----------------------------------------------------------------------------
(* c1_bSp1err: the shooting closure around get_cnb_vecs *)

\* the eleven-element args tuple of c1_bSp1err
c1_args_of(p, rp, sg, d) ==
  <<Zero, BetaVal, sg, Vector(EPath(p)), One, "b_ellip", "upsilon",
    Vector(ChiPath(p)), rp, WPath(p), d>>

\* (b_init, ..., chi_n_vec, rpath, wpath, diff) = args; cnb_args = (b_init,
\* beta, sigma, e, l_tilde, b_ellip, upsilon, chi_n_vec, diff); the call
\* get_cnb_vecs(c1_init, rpath, wpath, cnb_args)
c1_call(c1_init, a) ==
  [fn |-> "c1_bSp1err", c_init |-> c1_init, rpath |-> a[9], wpath |-> a[10],
   cnb_args |-> <<a[1], a[2], a[3], a[4], a[5], a[6], a[7], a[8], a[11]>>]

In_c1_bSp1err ==
  UNION {{c1_call(c, c1_args_of(p, rp, sg, d)) :
            c \in {One, Two}, rp \in SeqsOfLen(SimRVals, p),
            sg \in SigmaVals, d \in BOOLEAN} : p \in 2..S}

\* cvec, nvec, bvec, b_Sp1, n_errors, b_errors = get_cnb_vecs(...);
\* return b_Sp1
c1_bSp1err(r) == IF r.exc # "none" THEN Raise(r.exc) ELSE Ok(Scalar(r.val.b_Sp1))

ShootInit ==
  /\ pc = "loop"
  /\ args \in In_c1_bSp1err
  /\ ret = NoRet
  /\ frame = sim_frame(Len(args.rpath))

\* get_cnb_vecs has returned or raised into c1_bSp1err
Shoot_Return ==
  /\ pc = "returned" /\ args.fn = "c1_bSp1err"
  /\ ret' = c1_bSp1err(ret)
  /\ pc' = "done"
  /\ UNCHANGED <<args, frame>>

ShootNext == Sim_Pass \/ Sim_Finish \/ Shoot_Return

SpecShoot == ShootInit /\ [][ShootNext]_vars

----------------------------------------------------------------------------
(* Ch4SS_inclass.py at module level: the direct steady-state solve.  The    *)
(* solver calls euler_system on its iterates; when it returns, the script   *)
(* reads results.x and results.fun.                                         *)

\* evaluations of euler_system explored in one solve
MaxIter == 3

nb_args ==
  <<rbar, wbar, Ch4_beta, Ch4_sigma, [i \in 1..S |-> One], Ch4_l_tilde,
    "b_ellip", "upsilon", S>>

\* nvec_init = 0.9 * np.ones(S); bvec_init = 0.05 * np.ones(S - 1)
nbvec_init ==
  [i \in 1..S |-> R(9, 1, -1)] \o [i \in 1..(S - 1) |-> R(5, 1, -2)]

\* iterates of the solver: labor inside and above the time endowment
SS_Iterates ==
  {n \o b : n \in SeqsOfLen({R(5, 1, -1), Two}, S),
            b \in SeqsOfLen(Ch4_BGuess, S - 1)}

ss_frame(x, nfev) ==
  [x |-> x, fun |-> euler_system(x, nb_args), nfev |-> nfev,
   results |-> [x |-> <<>>, fun |-> <<>>, success |-> FALSE],
   n_ss |-> <<>>, b_ss |-> <<>>, n_errors_ss |-> <<>>, b_errors_ss |-> <<>>,
   K_ss |-> Zero, L_ss |-> Zero]

\* lines 124-137: the script's reading of the solver's result
ss_report(f, ok) ==
  [f EXCEPT !.results = [x |-> f.x, fun |-> f.fun.val.x, success |-> ok],
            !.n_ss = Slice(f.x, 0, S),
            !.b_ss = Slice(f.x, S, Len(f.x)),
            !.n_errors_ss = Slice(f.fun.val.x, 0, S),
            !.b_errors_ss = Slice(f.fun.val.x, 0, S),
            !.K_ss = get_K(Slice(f.x, S, Len(f.x))),
            !.L_ss = get_L(Slice(f.x, 0, S))]

SSInit ==
  /\ pc = "solving"
  /\ args = [fn |-> "Ch4SS_inclass", nb_args |-> nb_args]
  /\ ret = NoRet
  /\ frame = ss_frame(nbvec_init, 1)

\* the solver evaluates euler_system at its next iterate
SS_Evaluate ==
  /\ pc = "solving" /\ frame.nfev < MaxIter
  /\ frame.fun.exc = "none"
  /\ \E x \in SS_Iterates : frame' = ss_frame(x, frame.nfev + 1)
  /\ UNCHANGED <<pc, args, ret>>

\* opt.root returns, converged or not, and the script goes on to its end;
\* an exception raised by euler_system ends the script instead
SS_Report ==
  /\ pc = "solving"
  /\ IF frame.fun.exc # "none"
     THEN /\ pc' = "raised" /\ ret' = Raise(frame.fun.exc) /\ UNCHANGED frame
     ELSE /\ \E ok \in BOOLEAN : frame' = ss_report(frame, ok)
          /\ pc' = "done" /\ UNCHANGED ret
  /\ UNCHANGED args

SSNext == SS_Evaluate \/ SS_Report

SpecSS == SSInit /\ [][SSNext]_vars

----------------------------------------------------------------------------
(* opt.root(fun, x0, args, method='lm', tol, options): one run of the        *)
(* library's Levenberg-Marquardt solver, one step per evaluation of fun.    *)
(* The solver stops when it judges the iterate converged or when its count  *)
(* of evaluations reaches the cap: options['maxiter'] when the caller gives *)
(* one, the library's default 200 * (N + 1) for N unknowns when not.        *)

\* n_options = {'maxiter': 500}
n_maxiter == 500

\* the cap on evaluations for N unknowns; maxiter = 0 stands for no option
root_maxfev(maxiter, N) == IF maxiter = 0 THEN 200 * (N + 1) ELSE maxiter

\* a solver that ignores the cap
root_continues_uncapped(nfev, cap) == TRUE

\* the solver goes on to another evaluation
root_continues(nfev, cap) == nfev < cap

\* an inner labor solve of get_cnb_vecs at one age, for consumption c
In_root_n ==
  {[fn |-> "root_n", x0 |-> <<Div(One, Two)>>, maxiter |-> n_maxiter,
    fargs |-> <<Scalar(One), 2, Scalar(One), One, Scalar(One), "b_ellip",
                "upsilon", d, Scalar(c)>>] :
     d \in BOOLEAN, c \in {Num(-1), One}}

\* the outer steady-state solve, called without options
In_root_ss ==
  {[fn |-> "root_ss", x0 |-> nbvec_init, maxiter |-> 0, fargs |-> nb_args]}

\* iterates of the solver: for the labor solve, labor interior and above
\* the endowment; for the steady-state solve, the seed, savings
\* that make consumption deeply negative, labor above the endowment
root_iterates(a) ==
  IF a.fn = "root_n" THEN {<<v>> : v \in SolveVals}
  ELSE {nbvec_init,
        [i \in 1..S |-> R(5, 1, -1)] \o [i \in 1..(S - 1) |-> Num(10)],
        [i \in 1..S |-> Two] \o [i \in 1..(S - 1) |-> Zero]}

\* fun(x, *args)
root_fun(a, x) ==
  IF a.fn = "root_n" THEN get_n_errors(Vector(x), a.fargs)
  ELSE euler_system(x, a.fargs)

root_frame(a, x, nfev) ==
  [x |-> x, fun |-> root_fun(a, x), nfev |-> nfev,
   cap |-> root_maxfev(a.maxiter, Len(a.x0)),
   result |-> [x |-> <<>>, success |-> FALSE]]

SolveInit ==
  /\ pc = "solving"
  /\ \/ args \in In_root_n
     \/ args \in In_root_ss
  /\ ret = NoRet
  /\ frame = root_frame(args, args.x0, 1)

\* one more evaluation of fun at the next iterate; an exception raised by
\* the last evaluation leaves opt.root instead
Solve_Evaluate ==
  /\ pc = "solving"
  /\ IF frame.fun.exc # "none"
     THEN /\ pc' = "raised" /\ ret' = Raise(frame.fun.exc)
          /\ UNCHANGED frame
     ELSE /\ root_continues(frame.nfev, frame.cap)
          /\ \E x \in root_iterates(args) :
               frame' = root_frame(args, x, Min(frame.nfev + 1, frame.cap))
          /\ UNCHANGED <<pc, ret>>
  /\ UNCHANGED args

\* opt.root returns: at the cap without success, earlier with either flag
Solve_Return ==
  /\ pc = "solving" /\ frame.fun.exc = "none"
  /\ \E ok \in BOOLEAN :
       /\ (frame.nfev >= frame.cap) => ~ok
       /\ frame' = [frame EXCEPT !.result = [x |-> frame.x, success |-> ok]]
  /\ pc' = "solved"
  /\ UNCHANGED <<args, ret>>

SolveNext == Solve_Evaluate \/ Solve_Return

\* the solver is sequential code that keeps running: a step is taken as
\* long as one is possible.  This is weak fairness of SolveNext, WF_vars(
\* SolveNext), written with its enabling condition pc = "solving" spelled out
SolveFair == []<>(pc # "solving") \/ []<><<SolveNext>>_vars

SpecSolve == SolveInit /\ [][SolveNext]_vars /\ SolveFair

----------------------------------------------------------------------------
(* Calls in sequence on the caller's arrays.  args holds the arrays a       *)
(* caller owns (the guess vector and the paths); every call reads them and  *)
(* leaves behind what its stores made of them.  households.py has no        *)
(* module-level variable, so nothing else is carried from call to call.     *)

\* calls made in one sequence
MaxCalls == 3

PureFns ==
  {"get_cons", "get_n_errors", "get_b_errors", "bn_errors", "get_cnb_vecs",
   "c1_bSp1err"}

\* interest rates with an exact root of beta * (1 + r), a different value
\* at neighbouring ages
PureRPath(p) == [i \in 1..p |-> IF i % 2 = 0 THEN Num(3) ELSE Zero]

PureHeaps ==
  UNION {{[fn |-> "heap", bn_vec |-> g,
           bn_args |-> <<PureRPath(p), WPath(p), Zero, p, BetaVal, 2,
                         Vector(EPath(p)), One, Vector(ChiPath(p)), "b_ellip",
                         "upsilon", d>>] :
            g \in {b \o n : b \in SeqsOfLen(BGuess, p - 1),
                            n \in SeqsOfLen(SolveVals, p)},
            d \in BOOLEAN} : p \in 2..S}

\* an in-place store bn_vec[0] = 0.0
bn_vec_after_inplace(bn_vec, p) == [bn_vec EXCEPT ![1] = Zero]

\* bn_vec after bn_errors: np.append copies, and the views bn_vec[:p - 1]
\* and bn_vec[p - 1:] are only read
bn_vec_after(bn_vec, p) == bn_vec

\* the arrays after a call: the functions store only into arrays they
\* create (np.zeros, np.append, np.hstack results)
heap_after(name, h) ==
  IF name = "bn_errors"
  THEN [h EXCEPT !.bn_vec = bn_vec_after(h.bn_vec, h.bn_args[4])]
  ELSE h

\* c1_bSp1err's view of the arrays: initial consumption 1.0
heap_c1(h) ==
  c1_call(One, <<h.bn_args[3], h.bn_args[5], h.bn_args[6], h.bn_args[7],
                 h.bn_args[8], h.bn_args[10], h.bn_args[11], h.bn_args[9],
                 h.bn_args[1], h.bn_args[2], h.bn_args[12]>>)

\* get_cnb_vecs run to its end; opt.root is deterministic, here a solver
\* that returns its seed l_tilde / 2
RECURSIVE get_cnb_vecs_from(_, _, _)
get_cnb_vecs_from(f, a, k) ==
  IF k > Len(a.rpath) THEN sim_return(sim_after(f, a), a)
  ELSE IF sim_first_eval(f, a, k).exc # "none"
  THEN Raise(sim_first_eval(f, a, k).exc)
  ELSE get_cnb_vecs_from(sim_store(f, a, k, Div(a.cnb_args[5], Two), TRUE),
                         a, k + 1)

get_cnb_vecs(a) == get_cnb_vecs_from(sim_frame(Len(a.rpath)), a, 1)

\* the call of one household function on the arrays, with the locals
\* bn_errors derives from them
pure_call_on(name, h, loc) ==
  IF name = "bn_errors" THEN bn_errors(h.bn_vec, h.bn_args)
  ELSE IF name = "get_cons" THEN loc.c_vec
  ELSE IF name = "get_n_errors"
  THEN get_n_errors(Vector(loc.n_vec),
                    <<Vector(h.bn_args[2]), h.bn_args[6], h.bn_args[7],
                      h.bn_args[8], h.bn_args[9], h.bn_args[10],
                      h.bn_args[11], h.bn_args[12], loc.c_vec.val>>)
  ELSE IF name = "get_b_errors"
  THEN get_b_errors(loc.c_vec.val.x,
                    <<Vector(Slice(h.bn_args[1], 1, h.bn_args[4])),
                      h.bn_args[5], h.bn_args[6], h.bn_args[12]>>)
  ELSE IF name = "get_cnb_vecs" THEN get_cnb_vecs(heap_c1(h))
  ELSE c1_bSp1err(get_cnb_vecs(heap_c1(h)))

pure_call(name, h) == pure_call_on(name, h, bn_locals(h.bn_vec, h.bn_args))

\* heap0 keeps a copy of the arrays as they were before the first call
pure_frame(h) == [calls |-> 0, last |-> "none", heap0 |-> h]

pure_record(f, name) ==
  [f EXCEPT !.calls = @ + 1, !.last = name]

PureInit ==
  /\ pc = "idle"
  /\ args \in PureHeaps
  /\ OneSided(bn_locals(args.bn_vec, args.bn_args).c_vec.val.x)
  /\ ret = NoRet
  /\ frame = pure_frame(args)

\* the caller calls one of the functions on its arrays
Pure_Call ==
  /\ pc = "idle" /\ frame.calls < MaxCalls
  /\ \E name \in PureFns :
       /\ ret' = pure_call(name, args)
       /\ args' = heap_after(name, args)
       /\ frame' = pure_record(frame, name)
  /\ UNCHANGED pc

PureNext == Pure_Call

SpecPure == PureInit /\ [][PureNext]_vars

----------------------------------------------------------------------------
(* Two runs of the loop of get_cnb_vecs side by side.  The second run has   *)
(* the initial values, the parameters and the first k entries of rpath,     *)
(* wpath, e and chi_n_vec of the first; after age k its paths differ and    *)
(* may be shorter.  opt.root is a function of its arguments: where both     *)
(* runs hand it the same n_args it returns the same result_n.x.             *)

\* the call of the first run: paths of length S
In_pair_one ==
  {[fn |-> "get_cnb_vecs", c_init |-> One, rpath |-> rp, wpath |-> WPath(S),
    cnb_args |-> <<Zero, BetaVal, 2, Vector(EPath(S)), One, "b_ellip",
                   "upsilon", Vector(ChiPath(S)), TRUE>>] :
     rp \in SeqsOfLen(SimRVals, S)}

\* the call of the second run: the first k entries of every path as in a,
\* then the interest rates rt and other wages, productivities and weights
pair_two(a, k, rt) ==
  [a EXCEPT
     !.rpath = Slice(a.rpath, 0, k) \o rt,
     !.wpath = [i \in 1..(k + Len(rt)) |->
                  IF i <= k THEN a.wpath[i] ELSE Add(a.wpath[i], One)],
     !.cnb_args[4] = Vector([i \in 1..(k + Len(rt)) |->
                               IF i <= k THEN a.cnb_args[4].x[i] ELSE Two]),
     !.cnb_args[8] = Vector([i \in 1..(k + Len(rt)) |->
                               IF i <= k THEN a.cnb_args[8].x[i] ELSE Two])]

In_pair ==
  UNION {UNION {{[fn |-> "pair", k |-> k, one |-> a,
                  two |-> pair_two(a, k, rt)] :
                   rt \in SeqsOfLen(SimRVals, q - k), a \in In_pair_one} :
                q \in (k + 1)..S} : k \in 1..(S - 1)}

\* the n_args of the next pass of a run
pair_n_args(f, a) == sim_n_args(a, f.per + 1, sim_cvec(f, a, f.per + 1))

\* one more pass of a run that has ages left, with result_n.x = x
pair_pass(f, a, x) ==
  IF f.per < Len(a.rpath) THEN sim_store(f, a, f.per + 1, x, TRUE) ELSE f

PairInit ==
  /\ pc = "loop"
  /\ args \in In_pair
  /\ ret = NoRet
  /\ frame = [one |-> sim_frame(Len(args.one.rpath)),
              two |-> sim_frame(Len(args.two.rpath))]

\* each run that has ages left makes its next pass
Pair_Pass ==
  /\ pc = "loop"
  /\ ~(/\ frame.one.per = Len(args.one.rpath)
       /\ frame.two.per = Len(args.two.rpath))
  /\ \E x1 \in SolveVals, x2 \in SolveVals :
       /\ (/\ frame.one.per < Len(args.one.rpath)
           /\ frame.two.per < Len(args.two.rpath)
           /\ pair_n_args(frame.one, args.one) =
                pair_n_args(frame.two, args.two)) => x1 = x2
       /\ frame' = [one |-> pair_pass(frame.one, args.one, x1),
                    two |-> pair_pass(frame.two, args.two, x2)]
  /\ UNCHANGED <<pc, args, ret>>

PairNext == Pair_Pass

SpecPair == PairInit /\ [][PairNext]_vars

----------------------------------------------------------------------------
(* Properties of the household functions *)

Returned(fn) == pc = "returned" /\ args.fn = fn

CountForm(res, forms) == Cardinality({i \in 1..Len(res) : res[i].form \in forms})

\* C1: get_cnb_vecs with paths of length p and converging inner solves
\* returns without raising, with consumption, labor and wealth paths of
\* length p, b_Sp1, p labor residuals and p - 1 savings residuals
C1_Completes ==
  (/\ pc = "returned" /\ args.fn = "get_cnb_vecs"
   /\ \A k \in 1..Len(frame.solves) : frame.solves[k]) =>
    /\ ret.exc = "none"
    /\ Len(ret.val.cvec) = Len(args.rpath)
    /\ Len(ret.val.nvec) = Len(args.rpath)
    /\ Len(ret.val.bvec) = Len(args.rpath)
    /\ Len(ret.val.n_errors.x) = Len(args.rpath)
    /\ Len(ret.val.b_errors.x) = Len(args.rpath) - 1

\* C2: a labor solve that reports non-convergence at age k stops the
\* simulation there with an error: its value is not stored in nvec and no
\* later age is computed from it
C2_SurfacesFailure ==
  args.fn = "get_cnb_vecs" =>
    \A k \in 1..Len(frame.solves) :
      ~frame.solves[k] =>
        /\ pc = "returned"
        /\ ret.exc # "none"
        /\ frame.per = k
        /\ frame.nvec[k] = Zero

\* C3: when the steady-state solve does not converge, its last iterate is
\* not passed on as n_ss and b_ss, and no aggregate is computed from it
C3_FailureDistinguishable ==
  (args.fn = "Ch4SS_inclass" /\ pc = "done" /\ ~frame.results.success) =>
    /\ Len(frame.n_ss) = 0
    /\ Len(frame.b_ss) = 0
    /\ frame.K_ss = Zero
    /\ frame.L_ss = Zero

\* C4: n_errors_ss is the S labor components of the solver's final residual
\* vector and b_errors_ss is its S - 1 savings components
C4_ResidualsNamed ==
  (args.fn = "Ch4SS_inclass" /\ pc = "done") =>
    /\ frame.n_errors_ss = Slice(frame.results.fun, 0, S)
    /\ Len(frame.b_errors_ss) = S - 1
    /\ frame.b_errors_ss = Slice(frame.results.fun, S, 2 * S - 1)

\* C11: get_cnb_vecs returns b_Sp1 = (1 + r_p) * b_p + w_p * e_p * n_p - c_p
\* from the last age's wealth, labor and consumption, and c1_bSp1err returns
\* that same value
C11_TerminalResidual ==
  /\ (pc = "returned" /\ args.fn = "c1_bSp1err") =>
       /\ ret.exc = "none"
       /\ ret.val.b_Sp1 = sim_budget(frame, args, Len(args.rpath))
  /\ (pc = "done" /\ args.fn = "c1_bSp1err") =>
       /\ ret.exc = "none"
       /\ ret.val.x = sim_budget(frame, args, Len(args.rpath))

\* beta * (1 + r) * MU_c(c_{s+1}) - MU_c(c_s)
EulerDiff(beta, r, mu_cp1, mu_c) == Sub(Mul(Mul(beta, Add(One, r)), mu_cp1), mu_c)

\* the p - 1 savings residuals of bn_errors(bn_vec, *a) for consumption c
SavingsCh5(res, c, a) ==
  \A s \in 1..(a[4] - 1) :
    /\ res[s].form = "num"
    /\ res[s].q = EulerDiff(a[5], a[1][s + 1],
                            MU_c_stitch_scalar(c[s + 1], a[6]),
                            MU_c_stitch_scalar(c[s], a[6]))

\* the S - 1 savings residuals of euler_system for consumption c, at the
\* age pairs whose consumptions are both at or above epsilon
SavingsCh4(res, c) ==
  \A s \in 1..(S - 1) :
    (Ge(c[s], epsilon) /\ Ge(c[s + 1], epsilon)) =>
      res[S + s].q = EulerDiff(Ch4_beta, rbar, PowInt(c[s + 1], -Ch4_sigma),
                               PowInt(c[s], -Ch4_sigma))

\* C12: for a consumption path of length p the savings residual function
\* returns p - 1 entries, the s-th in absolute mode being
\* beta * (1 + r_{s+1}) * MU_c(c_{s+1}) - MU_c(c_s), in households.py
\* (through bn_errors) and in the steady-state driver (through euler_system)
C12_SavingsResidual ==
  /\ (Returned("bn_errors") /\ args.bn_args[12]) =>
       /\ CountForm(ret.val.x, {"num"}) = args.bn_args[4] - 1
       /\ SavingsCh5(ret.val.x, frame.c_vec.val.x, args.bn_args)
  /\ Returned("euler_system") =>
       /\ CountForm(ret.val.x, {"num"}) = S - 1
       /\ SavingsCh4(ret.val.x,
                     get_c(Slice(args.nbvec, 0, S),
                           Slice(args.nbvec, S, Len(args.nbvec)),
                           rbar, wbar).val.x)

Regime(v) == v.form

\* C15: for a vector input, element i of the result of MU_c_stitch and of
\* MDU_n_stitch is the result of the scalar branch on element i; for
\* MDU_n_stitch both branches put each labor value into the same regime
\* (below eps_low, interior with both breakpoints, above eps_high), for a
\* time endowment with eps_low <= eps_high
C15_PathsAgree ==
  /\ (Returned("MU_c_stitch") /\ args.cvec.ndim = 1) =>
       /\ ret.exc = "none"
       /\ Len(ret.val.x) = Len(args.cvec.x)
       /\ \A i \in 1..Len(args.cvec.x) :
            ret.val.x[i] = MU_c_stitch_scalar(args.cvec.x[i], args.sigma)
  /\ (Returned("MDU_n_stitch") /\ args.nvec.ndim = 1) =>
       /\ Le(eps_low, eps_high(args.l_tilde))
       /\ ret.exc = "none"
       /\ Len(ret.val.x) = Len(args.nvec.x)
       /\ \A i \in 1..Len(args.nvec.x) :
            /\ ret.val.x[i] =
                 MDU_n_stitch_scalar(args.nvec.x[i], args.l_tilde)
            /\ Regime(ret.val.x[i]) =
                 (IF Lt(args.nvec.x[i], eps_low) THEN "g_low"
                  ELSE IF Gt(args.nvec.x[i], eps_high(args.l_tilde))
                  THEN "g_high" ELSE "ellip")

\* a labor vector with the lower breakpoint first and the upper breakpoint
\* second, both in the interior regime
C15_Witness ==
  /\ Returned("MDU_n_stitch")
  /\ args.nvec.ndim = 1
  /\ Len(args.nvec.x) = 2
  /\ args.nvec.x[1] = eps_low
  /\ args.nvec.x[2] = eps_high(args.l_tilde)
  /\ Regime(ret.val.x[1]) = "ellip"
  /\ Regime(ret.val.x[2]) = "ellip"

\* C16: in the loop of get_cnb_vecs, once the first age is done wealth at
\* the first age is b_init and consumption is c_init, and after any number
\* of completed ages b_{s+1} = (1 + r_s) * b_s + w_s * e_s * n_s - c_s for
\* every age s below the last completed one, n_s being the labor stored at
\* age s
C16_BudgetIdentity ==
  (args.fn = "get_cnb_vecs" /\ frame.per >= 1) =>
    /\ frame.bvec[1] = args.cnb_args[1]
    /\ frame.cvec[1] = args.c_init
    /\ \A s \in 1..(frame.per - 1) :
         Add(frame.bvec[s + 1], frame.cvec[s]) =
           Add(Mul(Add(One, args.rpath[s]), frame.bvec[s]),
               Mul(args.wpath[s],
                   Mul(args.cnb_args[4].x[s], frame.nvec[s])))

\* all S ages completed, with wealth that moved at every age
C16_Witness ==
  /\ args.fn = "get_cnb_vecs"
  /\ pc = "loop"
  /\ frame.per = S
  /\ \A s \in 1..(S - 1) : frame.bvec[s + 1] # frame.bvec[s]
  /\ frame.nvec[1] # frame.nvec[S - 1]

\* the savings residuals of the consumption path built so far, in absolute
\* mode, with the interest rates rpath[1:] that get_cnb_vecs hands over
EulerOfPath(f, a) ==
  get_b_errors(Slice(f.cvec, 0, f.per),
               <<Vector(Slice(a.rpath, 1, f.per)), a.cnb_args[2],
                 a.cnb_args[3], TRUE>>)

\* the residuals res are one per adjacent pair of completed ages, and zero
\* where both consumptions are at or above epsilon
EulerZero(res, f, a) ==
  /\ res.exc = "none"
  /\ Len(res.val.x) = f.per - 1
  /\ \A s \in 1..(f.per - 1) :
       (Ge(f.cvec[s], epsilon) /\ Ge(f.cvec[s + 1], epsilon)) =>
         /\ res.val.x[s] = Zero
         /\ EulerDiff(a.cnb_args[2], a.rpath[s + 1],
                      PowInt(f.cvec[s + 1], -a.cnb_args[3]),
                      PowInt(f.cvec[s], -a.cnb_args[3])) = Zero

\* C17: the consumption path built by get_cnb_vecs satisfies the Euler
\* condition by construction: for every adjacent pair of completed ages
\* with both consumptions at or above epsilon, the savings residual
\* beta * (1 + r_{s+1}) * MU_c(c_{s+1}) - MU_c(c_s), taken with rpath[1:],
\* is zero
C17_EulerByConstruction ==
  (args.fn = "get_cnb_vecs" /\ frame.per >= 2) =>
    EulerZero(EulerOfPath(frame, args), frame, args)

\* all S ages completed under interest rates that differ between ages, so
\* that consumption both falls and stays level along the path
C17_Witness ==
  /\ args.fn = "get_cnb_vecs"
  /\ pc = "loop"
  /\ frame.per = S
  /\ args.cnb_args[3] = 2
  /\ args.rpath[1] # args.rpath[2]
  /\ args.rpath[2] # args.rpath[S]
  /\ Ge(frame.cvec[S], epsilon)
  /\ frame.cvec[S] # frame.cvec[1]

\* the ages a run has not reached yet still hold the zeros of np.zeros(p)
AgesAhead(f) ==
  \A i \in (f.per + 1)..Len(f.cvec) :
    f.cvec[i] = Zero /\ f.nvec[i] = Zero /\ f.bvec[i] = Zero

\* C18: get_cnb_vecs fills the ages in increasing order and each age
\* depends only on earlier ages: two runs with the same initial consumption
\* and wealth, the same parameters and the same first k entries of rpath,
\* wpath, e and chi_n_vec have the same consumption, wealth and labor at the
\* ages 1..k, whatever the entries after k
C18_PrefixOnly ==
  args.fn = "pair" =>
    /\ AgesAhead(frame.one)
    /\ AgesAhead(frame.two)
    /\ frame.two.per = Min(frame.one.per, Len(args.two.rpath))
    /\ \A i \in 1..Min(args.k, frame.two.per) :
         /\ frame.one.cvec[i] = frame.two.cvec[i]
         /\ frame.one.bvec[i] = frame.two.bvec[i]
         /\ frame.one.nvec[i] = frame.two.nvec[i]

\* both runs over, with interest rate and labor that differ at the age
\* after k and labor that moved within the first k ages
C18_Witness ==
  /\ args.fn = "pair"
  /\ args.k = S - 1
  /\ frame.one.per = S
  /\ frame.two.per = S
  /\ args.one.rpath[S] # args.two.rpath[S]
  /\ frame.one.nvec[S] # frame.two.nvec[S]
  /\ frame.one.nvec[1] # frame.one.nvec[args.k]
  /\ frame.one.cvec[S] # frame.two.cvec[S]

\* consumption at age k from the initial consumption and the interest
\* rates alone: c_init * prod_{j = 2..k} (beta * (1 + r_j)) ** (1 / sigma)
RECURSIVE ConsumptionAt(_, _)
ConsumptionAt(a, k) ==
  IF k = 1 THEN a.c_init
  ELSE Mul(ConsumptionAt(a, k - 1),
           Root(Mul(a.cnb_args[2], Add(One, a.rpath[k])), a.cnb_args[3]))

\* C19: every inner labor solve of get_cnb_vecs starts from l_tilde / 2,
\* and what it is handed does not depend on the solves of other ages: its
\* args are the wage, productivity and weight of its own age, the
\* parameters, and that age's consumption, which follows from c_init and
\* rpath; its result is the labor stored at its own age only
C19_FreshSolve ==
  (args.fn = "get_cnb_vecs" /\ frame.per >= 1) =>
    /\ frame.root_call.x0 = <<Div(args.cnb_args[5], Two)>>
    /\ frame.root_call.fargs =
         <<Scalar(args.wpath[frame.per]), args.cnb_args[3],
           Scalar(args.cnb_args[4].x[frame.per]), args.cnb_args[5],
           Scalar(args.cnb_args[8].x[frame.per]), args.cnb_args[6],
           args.cnb_args[7], args.cnb_args[9],
           Scalar(ConsumptionAt(args, frame.per))>>
    /\ frame.nvec[frame.per] = frame.result_n.x
    /\ \A i \in (frame.per + 1)..Len(frame.nvec) : frame.nvec[i] = Zero

\* the solve of the last age, after a solve that did not converge and
\* solves that ended at different values
C19_Witness ==
  /\ args.fn = "get_cnb_vecs"
  /\ pc = "loop"
  /\ frame.per = S
  /\ ~frame.solves[S - 1]
  /\ frame.nvec[1] # frame.nvec[S - 1]
  /\ frame.nvec[S - 1] = Two
  /\ frame.root_call.x0 = <<R(5, 1, -1)>>

\* get_n_errors called with the consumption path precomputed by get_cons
WithCons(a) ==
  get_n_errors(a.nvec,
               n_args_of("cvec", a.p, a.sigma, a.diff,
                         get_cons(Vector(RPath(a.p)), Vector(WPath(a.p)),
                                  Vector(a.b_s_vec), Vector(a.b_sp1_vec),
                                  a.nvec, Vector(EPath(a.p))).val,
                         a.b_s_vec, a.b_sp1_vec))

\* C20: get_n_errors called without a consumption path but with rpath,
\* b_s_vec and b_sp1_vec returns the residuals it returns for the
\* consumption path get_cons(rpath, wpath, b_s_vec, b_sp1_vec, nvec, e),
\* for the tuple its else branch unpacks and for the tuple its docstring
\* gives, and with a consumption path it takes that path
C20_ContextsAgree ==
  Returned("get_n_errors") =>
    /\ ret.exc = "none"
    /\ Len(ret.val.x) = args.p
    /\ ret = WithCons(args)

\* the same for the tuple the else branch unpacks, of length eleven
C20_UnpackedTuple ==
  (Returned("get_n_errors") /\ args.context = "rpath") =>
    /\ ret.exc = "none"
    /\ Len(ret.val.x) = args.p
    /\ ret = WithCons(args)

\* C5: in bn_errors and in get_c the savings chosen at the last age is zero
\* before consumption is computed: last-age consumption is
\* (1 + r_p) * b_p + w_p * n_p * e_p - 0 for every guess (get_c has no
\* productivity term), and b_sp1_vec ends with that zero, not a guess entry
C5_LastSavingsZero ==
  /\ Returned("bn_errors") =>
       LET p == args.bn_args[4]
           g == args.bn_vec
       IN /\ Len(frame.b_sp1_vec) = p
          /\ frame.b_sp1_vec[p] = Zero
          /\ Slice(frame.b_sp1_vec, 0, p - 1) = Slice(g, 0, p - 1)
          /\ frame.c_vec.exc = "none"
          /\ frame.c_vec.val.x[p] =
               Add(Mul(Add(One, args.bn_args[1][p]), g[p - 1]),
                   Mul(Mul(args.bn_args[2][p], g[2 * p - 1]),
                       args.bn_args[7].x[p]))
  /\ Returned("get_c") =>
       /\ ret.exc = "none"
       /\ ret.val.x[S] =
            Add(Mul(Add(One, args.r), args.bvec[S - 1]),
                Mul(args.w, args.nvec[S]))

C5_Witness ==
  /\ Returned("bn_errors")
  /\ args.bn_args[4] = S
  /\ args.bn_vec[S] # Zero
  /\ frame.b_sp1_vec[S] = Zero
  /\ Lt(frame.c_vec.val.x[S], epsilon)

\* C6: for 2 <= p <= S bn_errors splits a guess of length 2p - 1 into p
\* labor values and p - 1 savings values, every entry used once, and returns
\* 2p - 1 residuals: p labor residuals and p - 1 savings residuals;
\* euler_system does the same for p = S
C6_SplitAndLength ==
  /\ Returned("bn_errors") =>
       LET p == args.bn_args[4]
       IN /\ Len(args.bn_vec) = 2 * p - 1
          /\ Len(frame.n_vec) = p
          /\ Len(frame.b_sp1_vec) = p
          /\ Slice(frame.b_sp1_vec, 0, p - 1) \o frame.n_vec = args.bn_vec
          /\ ret.exc = "none"
          /\ Len(ret.val.x) = 2 * p - 1
          /\ CountForm(ret.val.x, {"diff", "pct"}) = p
          /\ CountForm(ret.val.x, {"num"}) = p - 1
          /\ \A i \in 1..p :
               ret.val.x[p - 1 + i].mdu.at = args.bn_vec[p - 1 + i]
  /\ Returned("euler_system") =>
       /\ ret.exc = "none"
       /\ Len(ret.val.x) = 2 * S - 1
       /\ CountForm(ret.val.x, {"diff"}) = S
       /\ CountForm(ret.val.x, {"num"}) = S - 1

C6_Witness ==
  /\ Returned("bn_errors")
  /\ args.bn_args[4] = 2
  /\ Len(ret.val.x) = 3
  /\ ret.val.x[2].form = "diff"

\* C7: MU_c_stitch and MDU_n_stitch return a value for every real
\* consumption and labor value, scalar or vector entry: no exception, a
\* finite result, and exactly one regime applied to each entry
OneOf(a, b, c) == (a /\ ~b /\ ~c) \/ (~a /\ b /\ ~c) \/ (~a /\ ~b /\ c)

C7_Total ==
  /\ Returned("MU_c_stitch") =>
       /\ ret.exc = "none"
       /\ ret.val.ndim = args.cvec.ndim
       /\ IF args.cvec.ndim = 0 THEN IsFinite(ret.val.x)
          ELSE /\ Len(ret.val.x) = Len(args.cvec.x)
               /\ \A i \in 1..Len(ret.val.x) : IsFinite(ret.val.x[i])
  /\ Returned("MDU_n_stitch") =>
       /\ ret.exc = "none"
       /\ ret.val.ndim = args.nvec.ndim
       /\ IF args.nvec.ndim = 0
          THEN /\ ret.val.x.form \in {"g_low", "ellip", "g_high"}
               /\ ret.val.x.st = "finite"
               /\ OneOf(n_s_low(args.nvec.x),
                        n_s_uncstr(args.nvec.x, args.l_tilde),
                        n_s_high(args.nvec.x, args.l_tilde))
          ELSE /\ Len(ret.val.x) = Len(args.nvec.x)
               /\ \A i \in 1..Len(ret.val.x) :
                    /\ ret.val.x[i].form \in {"g_low", "ellip", "g_high"}
                    /\ ret.val.x[i].st = "finite"
                    /\ OneOf(nvec_low(args.nvec.x)[i],
                             nvec_uncstr(nvec_low(args.nvec.x),
                                         nvec_high(args.nvec.x,
                                                   args.l_tilde))[i],
                             nvec_high(args.nvec.x, args.l_tilde)[i])

C7_Witness ==
  /\ Returned("MDU_n_stitch")
  /\ args.nvec.ndim = 0
  /\ args.nvec.x = eps_high(args.l_tilde)
  /\ ret.val.x.form = "ellip"

\* an iterate with labor outside [0, l_tilde] or consumption that is not
\* positive at some age
ss_transient(x) ==
  \/ \E i \in 1..S : Lt(x[i], Zero) \/ Gt(x[i], Ch4_l_tilde)
  \/ \E i \in 1..S :
       Le(get_c(Slice(x, 0, S), Slice(x, S, Len(x)), rbar, wbar).val.x[i],
          Zero)

\* C8: for every iterate of the steady-state solve with non-positive
\* consumption or labor outside [0, l_tilde], every residual handed back
\* to the root finder is finite
C8_FiniteResiduals ==
  (args.fn = "Ch4SS_inclass" /\ pc = "solving" /\ ss_transient(frame.x)) =>
    /\ frame.fun.exc = "none"
    /\ \A i \in 1..Len(frame.fun.val.x) : ResFinite(frame.fun.val.x[i])

\* C9: the linear piece 2 * b2 * c + b1 of MU_c_stitch meets the CRRA
\* marginal utility at epsilon in value and in slope, and c = epsilon itself
\* takes the CRRA branch; below epsilon the result lies on the tangent
\* line, e.g. epsilon ** -sigma * (1 + sigma / 2) at c = epsilon / 2
C9_StitchMatch ==
  args.fn = "MU_c_stitch" =>
    /\ MU_linear(epsilon, args.sigma) = PowInt(epsilon, -args.sigma)
    /\ Mul(Two, MU_b2(args.sigma)) =
         Mul(Num(-args.sigma), PowInt(epsilon, -args.sigma - 1))
    /\ Div(Sub(MU_linear(epsilon, args.sigma), MU_linear(Zero, args.sigma)),
           epsilon) = Mul(Num(-args.sigma), PowInt(epsilon, -args.sigma - 1))
    /\ (pc = "returned" /\ args.cvec.ndim = 0 /\ args.cvec.x = epsilon) =>
         /\ ~c_s_cnstr(args.cvec.x)
         /\ ret.val.x = PowInt(epsilon, -args.sigma)
    /\ (pc = "returned" /\ args.cvec.ndim = 0
          /\ args.cvec.x = R(5, 1, -5)) =>
         /\ c_s_cnstr(args.cvec.x)
         /\ ret.val.x = Mul(PowInt(epsilon, -args.sigma),
                            Add(One, Div(Num(args.sigma), Two)))

C9_Witness ==
  /\ Returned("MU_c_stitch")
  /\ args.cvec.ndim = 0
  /\ args.cvec.x = epsilon
  /\ args.sigma = 2
  /\ ret.val.x = R(1, 1, 8)

\* C10: with c = get_cons(r, w, b, b_sp1, n, e), next-period wealth
\* re-derived as (1 + r) * b + w * n * e - c is the original b_sp1 (an
\* identity of exact arithmetic; the rounding of doubles is not modelled)
C10_RoundTrip ==
  Returned("get_cons") =>
    /\ ret.exc = "none"
    /\ Sub(Add(Mul(Add(One, args.r), args.b),
               Mul(Mul(args.w, args.n), args.e)), ret.val.x) = args.b_sp1

C10_Witness ==
  /\ Returned("get_cons")
  /\ args.b_sp1 = Two
  /\ args.b = R(5, 1, -1)
  /\ Lt(ret.val.x, Zero)

====
